---- MODULE Spec2Model ----
(***************************************************************************)
(* Model of the lattice solver of funfluid (funfluid/lbm/core/lattice.py): *)
(* the stop decision and the drag/lift convergence buffers, the obstacle   *)
(* rasterizer (add_obstacle, lattice_coords, is_inside), the macroscopic   *)
(* update and the equilibrium distribution.                                *)
(*                                                                         *)
(* Real numbers are modelled exactly: a rational is a pair <<num, den>>,   *)
(* physical coordinates are integers (the grid extents are chosen so that  *)
(* the node spacing of lattice_coords is the integer CoordStep).           *)
(***************************************************************************)
EXTENDS Integers, Sequences, FiniteSets, TLC

VARIABLES
    stop,        \* self.stop: configured stop mode
    it_max,      \* self.it_max
    obs_cv_nb,   \* self.obs_cv_nb: capacity of each convergence buffer
    it,          \* self.it: iteration counter
    compute,     \* self.compute: the stop flag returned by check_stop
    drag_buff,   \* self.drag_buff
    lift_buff,   \* self.lift_buff
    nadd,        \* number of add_buff calls made so far
    IBB,         \* self.IBB: interpolated bounce-back enabled
    lattice,     \* self.lattice: the tag grid, 0 = fluid
    obstacles,   \* self.obstacles: the registered Obstacle objects
    g,           \* self.g: the distributions, g[cell][q + 1]
    g_eq,        \* self.g_eq: the equilibrium distributions, rationals
    rho,         \* self.rho: the density, a rational per node
    u,           \* self.u: the velocity, <<u_x num, u_y num, den>> per node
    last         \* the last operation performed, its inputs and its result

stopVars == <<stop, it_max, obs_cv_nb, it, compute, drag_buff, lift_buff, nadd>>
obsVars == <<IBB, lattice, obstacles>>
fieldVars == <<g, g_eq, rho, u>>
vars == <<stopVars, obsVars, fieldVars, last>>

----------------------------------------------------------------------------
(* Bounds *)
MaxItMax == 3      \* it_max ranges over 0..MaxItMax
MaxIt    == 6      \* check_stop is not called once it = MaxIt
MaxNb    == 3      \* obs_cv_nb ranges over 2..MaxNb
MaxAdds  == 4      \* add_buff is called at most MaxAdds times
NX       == 4      \* nx: number of lattice nodes along x
NY       == 3      \* ny: number of lattice nodes along y
MaxObs   == 2      \* add_obstacle is called with the tags 1..MaxObs
MaxCoord == 3      \* is_inside is tried on vertices in 0..MaxCoord
MaxRho   == 3      \* densities have numerators in 1..MaxRho
MaxU     == 2      \* velocity components have numerators in -MaxU..MaxU
MaxTilt  == 1      \* distributions vary across the grid by 0..MaxTilt per node

Samples == {0, 5}  \* the drag / lift samples fed to the buffers

----------------------------------------------------------------------------
(* Exact rationals: <<num, den>> with den > 0 *)
Abs(x) == IF x < 0 THEN -x ELSE x

RatAbsDiff(a, b) == <<Abs(a[1] * b[2] - b[1] * a[2]), a[2] * b[2]>>

RatLess(a, b) == a[1] * b[2] < b[1] * a[2]

RECURSIVE SeqSum(_)
SeqSum(s) == IF s = <<>> THEN 0 ELSE Head(s) + SeqSum(Tail(s))

----------------------------------------------------------------------------
(* D2Q9 stencil (BaseDefine.__init__) *)

\* self.q
Q == 9

\* self.c: the lattice velocities, direction q is c[q + 1]
c == << <<0, 0>>, <<1, 0>>, <<-1, 0>>, <<0, 1>>, <<0, -1>>,
        <<1, 1>>, <<-1, -1>>, <<-1, 1>>, <<1, -1>> >>

c_x(q) == c[q + 1][1]
c_y(q) == c[q + 1][2]

\* squared Euclidean norm of c[q]
CNorm2(q) == c_x(q) * c_x(q) + c_y(q) * c_y(q)

nsDiagonalKept == <<0, 2, 1, 4, 3, 5, 6, 8, 7>>

\* self.ns: the opposite direction, used for bounce-back
nsTable == <<0, 2, 1, 4, 3, 6, 5, 8, 7>>

ns(q) == nsTable[q + 1]

----------------------------------------------------------------------------
(* Grid geometry.  Coordinates are counted in halves of the node spacing:  *)
(* the integer n stands for the physical coordinate n / 2, the extents are *)
(* x_min = y_min = 0, x_max = nx - 1, y_max = ny - 1.                      *)

x_min == 0
y_min == 0
x_max == 2 * (NX - 1)
y_max == 2 * (NY - 1)

\* self.dx: the grid spacing used for areas and sub-grid distances
dx == 1

Cells == (0..(NX - 1)) \X (0..(NY - 1))

\* Lattice.lattice_coords
lattice_coords(i, j) ==
    LET dxc == (x_max - x_min) \div (NX - 1)
        dyc == (y_max - y_min) \div (NY - 1)
    IN  <<x_min + i * dxc, y_min + j * dyc>>

\* numpy indexing of an axis of length n with an index k, -n <= k < n
PyIdx(k, n) == IF k < 0 THEN k + n ELSE k

\* self.lattice[i, j] as numpy reads it
LatAt(lat, i, j) == lat[<<PyIdx(i, NX), PyIdx(j, NY)>>]

----------------------------------------------------------------------------
(* Lattice.is_inside *)

EdgeYTestClosed(pi, pj, pt) ==
    \/ pi[2] <= pt[2] /\ pt[2] <= pj[2]
    \/ pj[2] <= pt[2] /\ pt[2] <= pi[2]

\* the half-open interval test on y: yi < y <= yj or yj < y <= yi
EdgeYTest(pi, pj, pt) ==
    \/ pi[2] < pt[2] /\ pt[2] <= pj[2]
    \/ pj[2] < pt[2] /\ pt[2] <= pi[2]

\* the condition under which the slope of edge (pi, pj) is computed
EdgeGuard(pi, pj, pt) ==
    /\ EdgeYTest(pi, pj, pt)
    /\ (pi[1] < pt[1] \/ pj[1] < pt[1])

\* xi + (y - yi) * slope < x with slope = (xj - xi) / (yj - yi), exactly;
\* a zero yj - yi gives inf or nan, and the comparison is then false
\* because y - yi is zero too
EdgeSide(pi, pj, pt) ==
    LET dyv == pj[2] - pi[2]
        lhs == (pt[2] - pi[2]) * (pj[1] - pi[1])
        rhs == (pt[1] - pi[1]) * dyv
    IN  IF dyv > 0 THEN lhs < rhs
        ELSE IF dyv < 0 THEN lhs > rhs
        ELSE FALSE

\* the vertex paired with vertex i: j starts at the last vertex, then j = i
PrevVertex(poly, i) == IF i = 1 THEN poly[Len(poly)] ELSE poly[i - 1]

\* the edges at which odd_nodes is toggled
Toggles(poly, pt) ==
    {i \in 1..Len(poly) :
        /\ EdgeGuard(poly[i], PrevVertex(poly, i), pt)
        /\ EdgeSide(poly[i], PrevVertex(poly, i), pt)}

is_inside(poly, pt) == Cardinality(Toggles(poly, pt)) % 2 = 1

\* TRUE iff the slope computation of is_inside divides by zero
DividesByZero(poly, pt) ==
    \E i \in 1..Len(poly) :
        /\ EdgeGuard(poly[i], PrevVertex(poly, i), pt)
        /\ PrevVertex(poly, i)[2] = poly[i][2]

----------------------------------------------------------------------------
(* Polygons given to add_obstacle and is_inside.  Every edge is horizontal, *)
(* vertical or of slope +1 or -1, so the slope and the products computed   *)
(* by is_inside are exact in floating point.                               *)

\* the rectangle [x0, x1] x [y0, y1], counter-clockwise from (x0, y0)
Rect(x0, x1, y0, y1) == << <<x0, y0>>, <<x1, y0>>, <<x1, y1>>, <<x0, y1>> >>

\* the square of half-diagonal r centred at (cx, cy), standing on a corner
Diamond(cx, cy, r) ==
    << <<cx - r, cy>>, <<cx, cy - r>>, <<cx + r, cy>>, <<cx, cy + r>> >>

\* the same vertices starting k places later
Rotate(poly, k) ==
    [n \in 1..Len(poly) |-> poly[((n - 1 + k) % Len(poly)) + 1]]

\* the same vertices in the opposite orientation
Reverse(poly) == [n \in 1..Len(poly) |-> poly[Len(poly) + 1 - n]]

\* obstacles, with corners between the nodes: one-node rectangles in the
\* interior, in the first column, in the first row, in the corner (0, 0), in
\* the last column, in the last row and right of the grid, larger
\* rectangles, two diamonds around node (1, 1) and a triangle whose
\* hypotenuse passes through node (1, 1)
ObstaclePolygons ==
    {Rect(1, 3, 1, 3), Rect(3, 5, 1, 3), Rect(-1, 1, 1, 3), Rect(1, 3, -1, 1),
     Rect(-1, 1, -1, 1),
     Rect(x_max - 1, x_max + 1, 1, 3), Rect(1, 3, y_max - 1, y_max + 1),
     Rect(x_max + 1, x_max + 3, 1, 3),
     Rect(1, 5, 1, 5), Rect(-1, 5, 1, 3),
     Diamond(2, 2, 1), Diamond(2, 2, 3), << <<0, 0>>, <<4, 0>>, <<0, 4>> >>}

\* is_inside inputs: every rectangle with corners in 0..MaxCoord in every
\* vertex order, a diamond and a triangle
ProperRects ==
    {r \in (0..MaxCoord) \X (0..MaxCoord) \X (0..MaxCoord) \X (0..MaxCoord) :
        r[1] < r[2] /\ r[3] < r[4]}

InsidePolygons ==
    {Rotate(Rect(r[1], r[2], r[3], r[4]), k) : r \in ProperRects, k \in 0..3}
    \cup {Reverse(Rotate(Rect(r[1], r[2], r[3], r[4]), k)) :
            r \in ProperRects, k \in 0..3}
    \cup {Diamond(2, 2, 1), << <<0, 0>>, <<2, 0>>, <<0, 2>> >>}

InsidePoints == ((-1)..(MaxCoord + 1)) \X ((-1)..(MaxCoord + 1))

----------------------------------------------------------------------------
(* Lattice.add_obstacle *)

SetMin(S) == CHOOSE m \in S : \A e \in S : m <= e
SetMax(S) == CHOOSE m \in S : \A e \in S : m >= e

\* poly_bnds: <<min x, max x, min y, max y>>
poly_bnds(polygon) ==
    LET xs == {polygon[k][1] : k \in 1..Len(polygon)}
        ys == {polygon[k][2] : k \in 1..Len(polygon)}
    IN  <<SetMin(xs), SetMax(xs), SetMin(ys), SetMax(ys)>>

\* all nodes in the order of the loops over i and j
AllCells == [n \in 1..(NX * NY) |-> <<(n - 1) \div NY, (n - 1) % NY>>]

\* the node is strictly inside the bounding box and inside the polygon
Rasterized(polygon, cell) ==
    LET pt == lattice_coords(cell[1], cell[2])
        b  == poly_bnds(polygon)
    IN  /\ pt[1] > b[1]
        /\ pt[1] < b[2]
        /\ pt[2] > b[3]
        /\ pt[2] < b[4]
        /\ is_inside(polygon, pt)

\* the array obstacle: the tagged nodes in loop order
ObstacleCells(polygon) ==
    SelectSeq(AllCells, LAMBDA cell : Rasterized(polygon, cell))

FillCleared(lat, polygon, tag) ==
    [cell \in Cells |-> IF Rasterized(polygon, cell) THEN tag ELSE 0]

\* self.lattice after the fill loop
Fill(lat, polygon, tag) ==
    [cell \in Cells |-> IF Rasterized(polygon, cell) THEN tag ELSE lat[cell]]

RaisesOnEmpty(cells) ==
    \/ cells = <<>>
    \/ \E k \in 1..Len(cells) : cells[k][1] = NX - 1 \/ cells[k][2] = NY - 1

\* self.lattice[ii, jj] raises IndexError when ii = nx or jj = ny, which
\* happens for a tagged node in the last column or the last row
Raises(cells) ==
    \E k \in 1..Len(cells) : cells[k][1] = NX - 1 \/ cells[k][2] = NY - 1

CandidateSameDir(cells, n) ==
    LET k  == (n - 1) \div 8 + 1
        q  == ((n - 1) % 8) + 1
    IN  <<cells[k][1] + c_x(q), cells[k][2] + c_y(q), q>>

\* the candidate visited at step n of the loops over k and q = 1..8: the
\* neighbour (ii, jj) of tagged node k and the opposite direction qb
Candidate(cells, n) ==
    LET k  == (n - 1) \div 8 + 1
        q  == ((n - 1) % 8) + 1
    IN  <<cells[k][1] + c_x(q), cells[k][2] + c_y(q), ns(q)>>

\* boundary before np.unique: the fluid neighbours in visiting order
RawBoundary(lat, cells) ==
    SelectSeq([n \in 1..(8 * Len(cells)) |-> Candidate(cells, n)],
              LAMBDA t : LatAt(lat, t[1], t[2]) = 0)

\* lexicographic order of integer rows
RowLess(a, b) ==
    \/ a[1] < b[1]
    \/ a[1] = b[1] /\ a[2] < b[2]
    \/ a[1] = b[1] /\ a[2] = b[2] /\ a[3] < b[3]

RECURSIVE SortedRows(_)
SortedRows(S) ==
    IF S = {} THEN <<>>
    ELSE LET m == CHOOSE r \in S : \A e \in S : e = r \/ RowLess(r, e)
         IN  <<m>> \o SortedRows(S \ {m})

UniqueSkipped(rows) == rows

\* np.unique(boundary, axis=0): the distinct rows in lexicographic order
Unique(rows) == SortedRows({rows[k] : k \in 1..Len(rows)})

\* squared distance from the node to the nearest polygon vertex
MinDist2(polygon, pt) ==
    SetMin({(polygon[k][1] - pt[1]) * (polygon[k][1] - pt[1])
            + (polygon[k][2] - pt[2]) * (polygon[k][2] - pt[2]) :
            k \in 1..Len(polygon)})

\* mdst = dist[mpt] / (self.dx * norm(c[q])), kept as the rational
\* mdst^2 = <<squared distance in halves, 4 * dx^2 * |c[q]|^2>>
IbbDist(polygon, node) ==
    <<MinDist2(polygon, lattice_coords(node[1], node[2])),
      4 * dx * dx * CNorm2(node[3])>>

\* what np.empty(1) may hold: an uninitialized float
Uninitialized == {<<0, 1>>, <<1, 4>>}

\* the array ibb: one uninitialized entry, then one distance per boundary
\* node when IBB is set
IbbArray(polygon, boundary, ibbOn, junk) ==
    <<junk>> \o (IF ibbOn THEN [k \in 1..Len(boundary) |-> IbbDist(polygon, boundary[k])]
                 ELSE <<>>)

\* area: dx^2 for every node that carries the tag
Area(lat, tag) == Cardinality({cell \in Cells : lat[cell] = tag}) * dx * dx

\* the tags in use: tags are obstacle identifiers, positive and distinct
UsedTags ==
    {lattice[cell] : cell \in Cells} \cup {obstacles[k].tag : k \in 1..Len(obstacles)}

add_obstacle(polygon, tag, junk) ==
    LET cells    == ObstacleCells(polygon)
        lat      == Fill(lattice, polygon, tag)
        raised   == Raises(cells)
        boundary == Unique(RawBoundary(lat, cells))
        ibb      == IbbArray(polygon, boundary, IBB, junk)
        obs      == [polygon |-> polygon, area |-> Area(lat, tag),
                     boundary |-> boundary, ibb |-> ibb, tag |-> tag]
    IN  /\ tag \notin UsedTags
        /\ lattice' = lat
        /\ obstacles' = IF raised THEN obstacles ELSE Append(obstacles, obs)
        /\ last' = [op |-> "add_obstacle", polygon |-> polygon, tag |-> tag,
                    raised |-> raised, cells |-> cells, pre |-> lattice,
                    nobs |-> Len(obstacles)]
        /\ UNCHANGED <<IBB>>
        /\ UNCHANGED <<stopVars, fieldVars>>

----------------------------------------------------------------------------
(* BaseDefine.__init__: weights *)

w36NoCentre(q) == IF CNorm2(q) <= 1 THEN 4 ELSE 1

\* self.w in 36ths: 1/9 where the norm of c[q] is below 1.1, 1/36 where it
\* is above, then w[0] = 4/9
w36(q) == IF q = 0 THEN 16
          ELSE IF CNorm2(q) <= 1 THEN 4
          ELSE 1

----------------------------------------------------------------------------
(* BaseDefine.macro *)

RECURSIVE SumTo(_, _)
\* f(0) + ... + f(n - 1)
SumTo(f(_), n) == IF n = 0 THEN 0 ELSE f(n - 1) + SumTo(f, n - 1)

\* np.sum(self.g, axis=0) at one node
Mass(gc) == SumTo(LAMBDA q : gc[q + 1], Q)

\* np.tensordot(self.c[:, 0], self.g, axes=(0, 0)) at one node
MomentumX(gc) == SumTo(LAMBDA q : c_x(q) * gc[q + 1], Q)

\* np.tensordot(self.c[:, 1], self.g, axes=(0, 0)) at one node
MomentumY(gc) == SumTo(LAMBDA q : c_y(q) * gc[q + 1], Q)

MacroRhoMasked(tag, gc, old) == IF tag > 0 THEN old ELSE <<Mass(gc), 1>>

\* the new self.rho[i, j]: the whole array is assigned, whatever the tag
MacroRho(tag, gc, old) == <<Mass(gc), 1>>

\* the new self.u[:, i, j]: momentum over the new density (nan or inf,
\* kept as a zero denominator, when the density is zero)
MacroU(tag, gc, old) == <<MomentumX(gc), MomentumY(gc), Mass(gc)>>

macro ==
    /\ rho' = [cell \in Cells |-> MacroRho(lattice[cell], g[cell], rho[cell])]
    /\ u' = [cell \in Cells |-> MacroU(lattice[cell], g[cell], u[cell])]
    /\ last' = [op |-> "macro", rho0 |-> rho, u0 |-> u, read |-> Cells]
    /\ UNCHANGED <<g, g_eq>>
    /\ UNCHANGED <<stopVars, obsVars>>

----------------------------------------------------------------------------
(* BaseDefine.equilibrium (nb_equilibrium) *)

\* g_eq[q] = w[q] rho (1 + 3 (c_q.u) + 4.5 (c_q.u)^2 - 1.5 |u|^2) for
\* rho = r[1] / r[2] and u = (v[1], v[2]) / v[3], over the denominator
\* 72 r[2] v[3]^2
Equilibrium(r, v, q) ==
    LET k == c_x(q) * v[1] + c_y(q) * v[2]
        s == v[1] * v[1] + v[2] * v[2]
        d == v[3]
    IN  <<w36(q) * r[1] * (2 * d * d + 6 * d * k + 9 * k * k - 3 * s),
          72 * r[2] * d * d>>

equilibrium ==
    /\ g_eq' = [cell \in Cells |->
                  [n \in 1..Q |-> Equilibrium(rho[cell], u[cell], n - 1)]]
    /\ last' = [op |-> "equilibrium"]
    /\ UNCHANGED <<g, rho, u>>
    /\ UNCHANGED <<stopVars, obsVars>>

----------------------------------------------------------------------------
(* ConvergenceBuffer (class Buff) *)

\* obs_cv_ct: the convergence threshold, default 1.0e-1
obs_cv_ct == <<1, 10>>

NotYet == "not_yet_evaluable"

\* Buff(name, dt, obs_cv_ct, obs_cv_nb, output_dir)
BuffNew == [buf |-> <<>>, avg |-> <<0, 1>>, p_avg |-> <<0, 1>>,
            dc |-> NotYet, obs_cv |-> FALSE]

\* add(sample): push a value, evicting the oldest once the buffer is full
BuffAdd(b, v, nb) ==
    [b EXCEPT !.buf = IF Len(b.buf) >= nb THEN Append(Tail(b.buf), v)
                      ELSE Append(b.buf, v)]

\* mv_avg(): mean of the buffered samples, change against the previous mean,
\* converged once the buffer is full and the change is below the threshold
BuffMvAvg(b, nb) ==
    IF b.buf = <<>> THEN [b EXCEPT !.dc = NotYet]
    ELSE LET new  == <<SeqSum(b.buf), Len(b.buf)>>
             d    == RatAbsDiff(new, b.avg)
             full == Len(b.buf) = nb
         IN  [b EXCEPT !.p_avg = b.avg,
                       !.avg = new,
                       !.dc = IF full THEN d ELSE NotYet,
                       !.obs_cv = b.obs_cv \/ (full /\ RatLess(d, obs_cv_ct))]

----------------------------------------------------------------------------
(* Lattice.add_buff *)

BuffStepNoQuery(b, v, nb) == BuffAdd(b, v, nb)

\* one buffer's share of add_buff: add the sample, then query the average
BuffStep(b, v, nb) == BuffMvAvg(BuffAdd(b, v, nb), nb)

add_buff(Cx, Cy) ==
    /\ nadd < MaxAdds
    /\ drag_buff' = BuffStep(drag_buff, Cx, obs_cv_nb)
    /\ lift_buff' = BuffStep(lift_buff, Cy, obs_cv_nb)
    /\ nadd' = nadd + 1
    /\ last' = [op |-> "add_buff", Cx |-> Cx, Cy |-> Cy]
    /\ UNCHANGED <<stop, it_max, obs_cv_nb, it, compute>>
    /\ UNCHANGED <<obsVars, fieldVars>>

----------------------------------------------------------------------------
(* Lattice.check_stop *)

ItStopGe(i, m) == i >= m

\* stop mode 'it': if self.it > self.it_max
ItStop(i, m) == i > m

ObsStopEither(d, l) == d.obs_cv \/ l.obs_cv

\* stop mode 'obs': if self.drag_buff.obs_cv and self.lift_buff.obs_cv
ObsStop(d, l) == d.obs_cv /\ l.obs_cv

check_stopUnlatched ==
    /\ it < MaxIt
    /\ compute' = \/ stop = "it" /\ ItStop(it, it_max)
                  \/ stop = "obs" /\ ObsStop(drag_buff, lift_buff)
    /\ it' = it + 1
    /\ last' = [op |-> "check_stop", at |-> it, ret |-> compute']
    /\ UNCHANGED <<stop, it_max, obs_cv_nb, drag_buff, lift_buff, nadd>>
    /\ UNCHANGED <<obsVars, fieldVars>>

check_stop ==
    /\ it < MaxIt
    /\ compute' = IF stop = "it" /\ ItStop(it, it_max) THEN TRUE
                  ELSE IF stop = "obs" /\ ObsStop(drag_buff, lift_buff) THEN TRUE
                  ELSE compute
    /\ it' = it + 1
    /\ last' = [op |-> "check_stop", at |-> it, ret |-> compute']
    /\ UNCHANGED <<stop, it_max, obs_cv_nb, drag_buff, lift_buff, nadd>>
    /\ UNCHANGED <<obsVars, fieldVars>>

----------------------------------------------------------------------------
(* BaseDefine.__init__ *)

\* iterating and stopping: it = 0, compute = False, two fresh buffers
InitIter ==
    /\ it = 0
    /\ compute = FALSE
    /\ drag_buff = BuffNew
    /\ lift_buff = BuffNew
    /\ nadd = 0

\* lattice array all fluid, no obstacle
InitGrid ==
    /\ lattice = [cell \in Cells |-> 0]
    /\ obstacles = <<>>

\* density and distribution arrays, physical fields
InitFields ==
    /\ g = [cell \in Cells |-> [n \in 1..Q |-> 0]]
    /\ g_eq = [cell \in Cells |-> [n \in 1..Q |-> <<0, 1>>]]
    /\ rho = [cell \in Cells |-> <<1, 1>>]
    /\ u = [cell \in Cells |-> <<0, 0, 1>>]

InitStop ==
    /\ stop \in {"it", "obs"}
    /\ it_max \in 0..MaxItMax
    /\ obs_cv_nb \in 2..MaxNb
    /\ IBB = FALSE
    /\ InitIter
    /\ InitGrid
    /\ InitFields
    /\ last = [op |-> "init"]

NextStop ==
    \/ check_stop
    \/ \E Cx \in Samples, Cy \in Samples : add_buff(Cx, Cy)

SpecStop == InitStop /\ [][NextStop]_vars

----------------------------------------------------------------------------
(* Stopping when a buffer may take its converged flag back *)

\* a buffer's converged flag, once set, is cleared again
obs_cv_cleared(drag) ==
    /\ IF drag THEN drag_buff.obs_cv ELSE lift_buff.obs_cv
    /\ drag_buff' = IF drag THEN [drag_buff EXCEPT !.obs_cv = FALSE] ELSE drag_buff
    /\ lift_buff' = IF drag THEN lift_buff ELSE [lift_buff EXCEPT !.obs_cv = FALSE]
    /\ last' = [op |-> "obs_cv_cleared", drag |-> drag]
    /\ UNCHANGED <<stop, it_max, obs_cv_nb, it, compute, nadd>>
    /\ UNCHANGED <<obsVars, fieldVars>>

NextLatch ==
    \/ check_stop
    \/ \E Cx \in Samples, Cy \in Samples : add_buff(Cx, Cy)
    \/ \E drag \in BOOLEAN : obs_cv_cleared(drag)

SpecLatch == InitStop /\ [][NextLatch]_vars

----------------------------------------------------------------------------
(* Obstacle set-up: add_obstacle called with increasing tags *)

InitObs ==
    /\ stop = "it"
    /\ it_max = 0
    /\ obs_cv_nb = 2
    /\ IBB \in BOOLEAN
    /\ InitIter
    /\ InitGrid
    /\ InitFields
    /\ last = [op |-> "init"]

NextObs ==
    \E polygon \in ObstaclePolygons, tag \in 1..MaxObs, junk \in Uninitialized :
        /\ \A t \in 1..(tag - 1) : t \in UsedTags
        /\ add_obstacle(polygon, tag, junk)

SpecObs == InitObs /\ [][NextObs]_vars

----------------------------------------------------------------------------
(* is_inside applied to a polygon and a point *)

is_inside_call(poly, pt) ==
    /\ last.op = "init"
    /\ last' = [op |-> "is_inside", poly |-> poly, pt |-> pt,
                ret |-> is_inside(poly, pt),
                divzero |-> DividesByZero(poly, pt)]
    /\ UNCHANGED <<stopVars, obsVars, fieldVars>>

NextInside ==
    \E poly \in InsidePolygons, pt \in InsidePoints : is_inside_call(poly, pt)

InitInside ==
    /\ stop = "it"
    /\ it_max = 0
    /\ obs_cv_nb = 2
    /\ IBB = FALSE
    /\ InitIter
    /\ InitGrid
    /\ InitFields
    /\ last = [op |-> "init"]

SpecInside == InitInside /\ [][NextInside]_vars

----------------------------------------------------------------------------
(* The macroscopic update on a grid that holds one obstacle *)

\* distributions at a node: at rest, the rest equilibrium of density 36,
\* a flow to the right, a flow to the upper left
GVecs == { <<0, 0, 0, 0, 0, 0, 0, 0, 0>>,
           <<16, 4, 4, 4, 4, 1, 1, 1, 1>>,
           <<16, 6, 2, 4, 4, 2, 0, 0, 2>>,
           <<8, 1, 3, 5, 2, 0, 1, 3, 0>> }

\* a field of distributions: vec, raised along one direction by a slope
GField(vec, q, tilt) ==
    [cell \in Cells |->
        [n \in 1..Q |-> IF n = q + 1 THEN vec[n] + tilt * (cell[1] + 2 * cell[2])
                        ELSE vec[n]]]

InitMacro ==
    /\ stop = "it"
    /\ it_max = 0
    /\ obs_cv_nb = 2
    /\ IBB = FALSE
    /\ InitIter
    /\ obstacles = <<>>
    /\ \E polygon \in ObstaclePolygons :
          lattice = Fill([cell \in Cells |-> 0], polygon, 1)
    /\ \E vec \in GVecs, q \in {1, 7}, tilt \in 0..MaxTilt : g = GField(vec, q, tilt)
    /\ g_eq = [cell \in Cells |-> [n \in 1..Q |-> <<0, 1>>]]
    /\ rho = [cell \in Cells |-> <<1, 1>>]
    /\ u = [cell \in Cells |-> <<0, 0, 1>>]
    /\ last = [op |-> "init"]

NextMacro ==
    \/ macro
    \/ equilibrium

SpecMacro == InitMacro /\ [][NextMacro]_vars

----------------------------------------------------------------------------
(* The equilibrium distribution of given density and velocity fields *)

\* denominators of the velocity components: 1, 1/2, 1/10, 1/20
UDens == {1, 2, 10, 20}

InitEq ==
    /\ stop = "it"
    /\ it_max = 0
    /\ obs_cv_nb = 2
    /\ IBB = FALSE
    /\ InitIter
    /\ InitGrid
    /\ g = [cell \in Cells |-> [n \in 1..Q |-> 0]]
    /\ g_eq = [cell \in Cells |-> [n \in 1..Q |-> <<0, 1>>]]
    /\ \E rn \in 1..MaxRho, rd \in {1, 2} :
          rho = [cell \in Cells |-> <<rn + cell[2], rd>>]
    /\ \E a \in (-MaxU)..MaxU, b \in (-MaxU)..MaxU, d \in UDens :
          u = [cell \in Cells |-> <<a - cell[1], b + cell[2], d>>]
    /\ last = [op |-> "init"]

NextEq == equilibrium

SpecEq == InitEq /\ [][NextEq]_vars

----------------------------------------------------------------------------
(* Claims about the stop decision and the convergence buffers (SpecStop) *)

\* C1 (as stated): in stop mode 'it' a call of check_stop returns True
\* exactly when the counter it was called at is >= it_max, so the first True
\* comes from the call made at it = it_max.
C1_FirstStopAtItMax ==
    (stop = "it" /\ last.op = "check_stop") => (last.ret <=> last.at >= it_max)

\* C1 (amended): in stop mode 'it' a call of check_stop returns True exactly
\* when the counter it was called at is > it_max: starting from it = 0 the
\* first call that returns True is the one made at it = it_max + 1.
C1_FirstStopAfterItMax ==
    (stop = "it" /\ last.op = "check_stop") => (last.ret <=> last.at > it_max)

C1_Witness ==
    /\ stop = "it"
    /\ last.op = "check_stop"
    /\ last.at = it_max + 1
    /\ last.ret

FullOf(b, v, nb) == Len(b.buf) = nb /\ \A k \in 1..nb : b.buf[k] = v

\* TRUE iff buffer b reports a change of 0 and is converged
ZeroAndConverged(b) == b.dc # NotYet /\ b.dc[1] = 0 /\ b.obs_cv

----------------------------------------------------------------------------
(* Claims about the obstacle rasterizer (SpecObs, SpecInside) *)

\* the obstacle registered by the last call of add_obstacle
NewObstacle == obstacles[Len(obstacles)]

Returned == last.op = "add_obstacle" /\ ~last.raised

Rows(seq) == {seq[k] : k \in 1..Len(seq)}

\* the node a boundary row points at: (i + c_x[q], j + c_y[q])
Target(t) == <<t[1] + c_x(t[3]), t[2] + c_y(t[3])>>

\* C3: right after add_obstacle returns, every row (i, j, q) of the new
\* obstacle's boundary names a fluid node (lattice[i, j] == 0, as numpy
\* indexes it) whose neighbour in direction q carries the obstacle's tag,
\* and every fluid node with a neighbour in direction q that was rasterized
\* for this obstacle is in the list with that direction.
C3_BoundaryIsFluidLayer ==
    Returned =>
        /\ \A t \in Rows(NewObstacle.boundary) :
              /\ LatAt(lattice, t[1], t[2]) = 0
              /\ Target(t) \in Cells
              /\ lattice[Target(t)] = NewObstacle.tag
        /\ \A cell \in Cells, q \in 0..(Q - 1) :
              (/\ lattice[cell] = 0
               /\ Target(<<cell[1], cell[2], q>>) \in Rows(last.cells))
                  => <<cell[1], cell[2], q>> \in Rows(NewObstacle.boundary)

C3_Witness ==
    /\ Returned
    /\ Len(last.cells) >= 2
    /\ Len(NewObstacle.boundary) >= 8
    /\ Len(obstacles) = 2

\* C4: the boundary list of every registered obstacle has no duplicate row
\* and is in the one order that depends on nothing but its rows: strictly
\* increasing lexicographically.
C4_BoundaryDistinctSorted ==
    \A n \in 1..Len(obstacles) :
        LET b == obstacles[n].boundary
        IN  /\ \A k \in 1..Len(b), l \in 1..Len(b) : k # l => b[k] # b[l]
            /\ \A k \in 1..(Len(b) - 1) : RowLess(b[k], b[k + 1])

C4_Witness ==
    /\ Returned
    /\ Len(NewObstacle.boundary) >= 8
    /\ \E t \in Rows(NewObstacle.boundary), t2 \in Rows(NewObstacle.boundary) :
          t[1] = t2[1] /\ t[2] = t2[2] /\ t[3] # t2[3]

\* equality of two rationals
RatEq(a, b) == a[1] * b[2] = b[1] * a[2]

\* C6 (as stated): the ibb array of an obstacle holds exactly one distance
\* per boundary row, entry k being the distance of row k, when IBB is
\* enabled, and holds no entry when IBB is disabled.
C6_IbbPerBoundaryNode ==
    \A n \in 1..Len(obstacles) :
        LET o == obstacles[n]
        IN  IF IBB
            THEN /\ Len(o.ibb) = Len(o.boundary)
                 /\ \A k \in 1..Len(o.boundary) :
                       RatEq(o.ibb[k], IbbDist(o.polygon, o.boundary[k]))
            ELSE Len(o.ibb) = 0

UnitSquare == Rect(0, 2, 0, 2)

\* TRUE iff poly is a rectangle with sides on the axes and positive area
IsProperRect(poly) ==
    LET b == poly_bnds(poly)
    IN  /\ Len(poly) = 4
        /\ b[1] < b[2]
        /\ b[3] < b[4]
        /\ Rows(poly) = {<<b[1], b[3]>>, <<b[2], b[3]>>, <<b[2], b[4]>>, <<b[1], b[4]>>}
        /\ \A i \in 1..4 :
              (poly[i][1] = PrevVertex(poly, i)[1]) # (poly[i][2] = PrevVertex(poly, i)[2])

\* C5: is_inside never divides by zero; for a rectangle with sides on the
\* axes it is True at every point strictly inside and False at every point
\* strictly outside; for the unit square it is True at (0.5, 0.5), False at
\* (2, 2), and the edge point (0, 0.5) always gets the same answer, False.
C5_IsInsideEvenOdd ==
    last.op = "is_inside" =>
        LET b == poly_bnds(last.poly)
            x == last.pt[1]
            y == last.pt[2]
        IN  /\ ~last.divzero
            /\ IsProperRect(last.poly) =>
                  /\ (b[1] < x /\ x < b[2] /\ b[3] < y /\ y < b[4]) => last.ret
                  /\ (x < b[1] \/ x > b[2] \/ y < b[3] \/ y > b[4]) => ~last.ret
            /\ last.poly = UnitSquare =>
                  /\ last.pt = <<1, 1>> => last.ret
                  /\ last.pt = <<4, 4>> => ~last.ret
                  /\ last.pt = <<0, 1>> => ~last.ret

C5_Witness ==
    /\ last.op = "is_inside"
    /\ last.poly = UnitSquare
    /\ last.pt = <<1, 1>>
    /\ last.ret
    /\ ~last.divzero

----------------------------------------------------------------------------
(* Claims about the macroscopic update and the equilibrium (SpecMacro, *)
(* SpecEq)                                                              *)

\* C7 (as stated): macro() neither reads g at a node with lattice > 0 nor
\* changes rho or u there, and sets rho to the sum of g over q at every
\* fluid node.
C7_MacroSkipsObstacles ==
    last.op = "macro" =>
        \A cell \in Cells :
            /\ lattice[cell] > 0 =>
                  /\ cell \notin last.read
                  /\ rho[cell] = last.rho0[cell]
                  /\ u[cell] = last.u0[cell]
            /\ lattice[cell] = 0 => rho[cell] = <<Mass(g[cell]), 1>>

\* C7 (amended): macro() does not look at the tag grid: at every node, fluid
\* or obstacle, it reads g and sets rho to the sum of g over q and u to the
\* momentum over that sum.
C7_MacroCoversEveryNode ==
    last.op = "macro" =>
        \A cell \in Cells :
            /\ cell \in last.read
            /\ rho[cell] = <<Mass(g[cell]), 1>>
            /\ u[cell] = <<MomentumX(g[cell]), MomentumY(g[cell]), Mass(g[cell])>>

C7_Witness ==
    /\ last.op = "macro"
    /\ \E cell \in Cells :
          /\ lattice[cell] > 0
          /\ rho[cell] # last.rho0[cell]
          /\ u[cell] # last.u0[cell]
    /\ \E cell \in Cells : lattice[cell] = 0 /\ rho[cell] # last.rho0[cell]

\* the numerators of g_eq at a node add up, over the common denominator
EqMass(cell) == SumTo(LAMBDA q : g_eq[cell][q + 1][1], Q)
EqMomentumX(cell) == SumTo(LAMBDA q : c_x(q) * g_eq[cell][q + 1][1], Q)
EqMomentumY(cell) == SumTo(LAMBDA q : c_y(q) * g_eq[cell][q + 1][1], Q)

\* C9: the equilibrium conserves mass and momentum: at every node the sum
\* over q of g_eq[q] is rho and the sum over q of c[q] g_eq[q] is rho u.
C9_EquilibriumConserves ==
    last.op = "equilibrium" =>
        \A cell \in Cells :
            LET den == g_eq[cell][1][2]
                r   == rho[cell]
                v   == u[cell]
            IN  v[3] # 0 =>
                  /\ \A n \in 1..Q : g_eq[cell][n][2] = den
                  /\ RatEq(<<EqMass(cell), den>>, r)
                  /\ RatEq(<<EqMomentumX(cell), den>>, <<r[1] * v[1], r[2] * v[3]>>)
                  /\ RatEq(<<EqMomentumY(cell), den>>, <<r[1] * v[2], r[2] * v[3]>>)

C9_Witness ==
    /\ last.op = "equilibrium"
    /\ \E cell \in Cells :
          /\ u[cell][1] # 0
          /\ u[cell][2] # 0
          /\ u[cell][3] = 20
          /\ rho[cell][2] = 2
          /\ EqMass(cell) > 0
          /\ EqMomentumX(cell) # 0

----------------------------------------------------------------------------
(* Claims about the opposite-direction table (SpecObs) *)

\* C11: ns is an involution that fixes the rest direction, ns[ns[q]] = q for
\* every q in 0..8 and ns[0] = 0, and it pairs every direction with its
\* reverse, c[ns[q]] = -c[q]; so the direction recorded in a boundary row
\* is the reverse of the step that led from the tagged node to the row's node.
C11_NsReversesDirections ==
    /\ ns(0) = 0
    /\ \A q \in 0..(Q - 1) :
          /\ ns(q) \in 0..(Q - 1)
          /\ ns(ns(q)) = q
          /\ c_x(ns(q)) = -c_x(q)
          /\ c_y(ns(q)) = -c_y(q)
    /\ \A n \in 1..Len(obstacles) : \A t \in Rows(obstacles[n].boundary) :
          <<Target(t)[1] + c_x(ns(t[3])), Target(t)[2] + c_y(ns(t[3]))>> = <<t[1], t[2]>>

\* add_obstacle has recorded the opposite of each of the eight directions
C11_Witness ==
    /\ Returned
    /\ {t[3] : t \in Rows(NewObstacle.boundary)} = {ns(q) : q \in 1..(Q - 1)}
    /\ \A t \in Rows(NewObstacle.boundary) : lattice[Target(t)] = NewObstacle.tag

----------------------------------------------------------------------------
(* Claims about several obstacles on one lattice (SpecObs) *)

\* row t of obstacle n names a fluid node whose neighbour in the recorded
\* direction carries the obstacle's tag
BoundaryRowGood(n, t) ==
    /\ LatAt(lattice, t[1], t[2]) = 0
    /\ lattice[Target(t)] = obstacles[n].tag

\* the node of a boundary row as numpy indexes it
RowNode(t) == <<PyIdx(t[1], NX), PyIdx(t[2], NY)>>

\* C12 as stated: after any sequence of add_obstacle calls, overlapping or
\* touching polygons included, every boundary node of every registered
\* obstacle is a fluid node and its direction points at a node carrying
\* that obstacle's tag.
C12_BoundariesStayValid ==
    \A n \in 1..Len(obstacles) : \A t \in Rows(obstacles[n].boundary) :
        BoundaryRowGood(n, t)

\* C12 amended: registered obstacles are never removed or changed; the rows
\* of a newly registered obstacle are good; and a good row of a registered
\* obstacle stays good over every call of add_obstacle that rasterizes
\* neither the row's node nor the node its direction points at.
C12_BoundariesValidUntilRasterized ==
    [][/\ Len(obstacles') >= Len(obstacles)
       /\ \A n \in 1..Len(obstacles) :
             /\ obstacles'[n] = obstacles[n]
             /\ \A t \in Rows(obstacles[n].boundary) :
                   (/\ BoundaryRowGood(n, t)
                    /\ RowNode(t) \notin Rows(last'.cells)
                    /\ Target(t) \notin Rows(last'.cells))
                       => BoundaryRowGood(n, t)'
       /\ \A n \in (Len(obstacles) + 1)..Len(obstacles') :
             \A t \in Rows(obstacles'[n].boundary) : BoundaryRowGood(n, t)'
      ]_vars

\* a second obstacle has been registered on top of the first one's boundary:
\* one row of the first obstacle is broken, another one is still good
C12_Witness ==
    /\ Returned
    /\ Len(obstacles) = 2
    /\ last.cells # <<>>
    /\ \E t1, t2 \in Rows(obstacles[1].boundary) :
          /\ ~BoundaryRowGood(1, t1)
          /\ RowNode(t1) \in Rows(last.cells)
          /\ BoundaryRowGood(1, t2)

\* C13: add_obstacle completes without an index error for any polygon, also
\* one whose rasterized nodes lie in the first or last row or column, and
\* every recorded boundary node (i, j) has 0 <= i <= nx - 1 and
\* 0 <= j <= ny - 1.
C13_BoundaryInsideGrid ==
    /\ last.op = "add_obstacle" => ~last.raised
    /\ \A n \in 1..Len(obstacles) : \A t \in Rows(obstacles[n].boundary) :
          /\ 0 <= t[1] /\ t[1] <= NX - 1
          /\ 0 <= t[2] /\ t[2] <= NY - 1

----------------------------------------------------------------------------
(* Claims about the stop decision over time (SpecLatch) *)

\* the step is a call of check_stop
StopChecked == last'.op = "check_stop" /\ last' # last

\* C14: every call of check_stop increases the iteration counter by exactly
\* 1 whether or not it reports stop, it returns the stop decision, and the
\* decision latches: no step takes it back, so once a call has returned True
\* every later call returns True, also after a converged flag was cleared.
C14_StopLatchesCounterAdvances ==
    [][/\ compute => compute'
       /\ StopChecked =>
             /\ it' = it + 1
             /\ last'.at = it
             /\ last'.ret = compute'
             /\ compute => last'.ret
      ]_vars

\* a call in mode 'obs' has returned True although a buffer's converged
\* flag was cleared before the call
C14_Witness ==
    /\ last.op = "check_stop"
    /\ last.ret
    /\ compute
    /\ it >= 2
    /\ stop = "obs"
    /\ ~ObsStop(drag_buff, lift_buff)

====
